---- MODULE Spec2Model ----
(***************************************************************************)
(* A model of svg.py: the attribute normalizer _fix_attrs, the scoped      *)
(* group handle _SVGGroup and the document builder SVGBuilder, a subclass  *)
(* of xml.etree.ElementTree.TreeBuilder.                                   *)
(*                                                                         *)
(* Python strings that the program transforms (attribute names and         *)
(* values) are sequences of one-character strings.  Element tags are never *)
(* transformed and are plain strings.  A Python dict of keyword arguments  *)
(* is a sequence of <<key, value>> pairs with distinct keys, in insertion  *)
(* order.  An attribute dict is a function from names to values.           *)
(***************************************************************************)
EXTENDS Integers, Sequences, FiniteSets, TLC

(***************************************************************************)
(* Bounds of the model.                                                    *)
(***************************************************************************)
\* Elements one builder may create, the root svg and its comment included.
MaxNodes == 4
\* Longest keyword name fed to the normalizer in SpecFixAttrs.
MaxKeyLen == 3
\* Largest centre coordinate given to circle_sector in SpecSector.
MaxCoord == 1

(***************************************************************************)
(* Python values and str().                                                *)
(***************************************************************************)
PyNone == [t |-> "None", i |-> 0, s |-> <<>>]
PyInt(n) == [t |-> "int", i |-> n, s |-> <<>>]
\* A float with one decimal place, given in tenths: PyFloat(25) is 2.5.
PyFloat(n) == [t |-> "float", i |-> n, s |-> <<>>]
PyStr(cs) == [t |-> "str", i |-> 0, s |-> cs]

DigitChar == <<"0", "1", "2", "3", "4", "5", "6", "7", "8", "9">>

RECURSIVE Digits(_)
Digits(n) ==
    IF n < 10 THEN <<DigitChar[n + 1]>>
    ELSE Digits(n \div 10) \o <<DigitChar[(n % 10) + 1]>>

Abs(n) == IF n < 0 THEN -n ELSE n

IntStr(n) == IF n < 0 THEN <<"-">> \o Digits(-n) ELSE Digits(n)

\* str(value): the default string form.
str(v) ==
    CASE v.t = "int" -> IntStr(v.i)
      [] v.t = "float" ->
            (IF v.i < 0 THEN <<"-">> ELSE <<>>)
            \o Digits(Abs(v.i) \div 10) \o <<".">> \o Digits(Abs(v.i) % 10)
      [] v.t = "None" -> <<"N", "o", "n", "e">>
      [] v.t = "str" -> v.s

(***************************************************************************)
(* Keyword arguments and attribute dicts.                                  *)
(***************************************************************************)
EmptyDict == <<>>

SetItem(d, k, v) ==
    [x \in (DOMAIN d) \cup {k} |-> IF x = k THEN v ELSE d[x]]

KwKeys(kwargs) == {kwargs[i][1] : i \in 1..Len(kwargs)}

\* A replace that stops after the first occurrence (count=1).
replace_first(key) ==
    [i \in 1..Len(key) |->
        IF key[i] = "_" /\ \A j \in 1..(i - 1) : key[j] # "_"
        THEN "-" ELSE key[i]]

\* key.replace('_', '-'): every occurrence of the underscore is replaced.
replace(key) ==
    [i \in 1..Len(key) |-> IF key[i] = "_" THEN "-" ELSE key[i]]

RECURSIVE fix_attrs_loop(_, _)
fix_attrs_loop(kwargs, attrs) ==
    IF kwargs = <<>> THEN attrs
    ELSE fix_attrs_loop(Tail(kwargs),
                        SetItem(attrs, replace(Head(kwargs)[1]),
                                str(Head(kwargs)[2])))

\* _fix_attrs(**kwargs)
fix_attrs(kwargs) == fix_attrs_loop(kwargs, EmptyDict)

(***************************************************************************)
(* Attribute names and literal strings of the program.                     *)
(***************************************************************************)
k_xmlns == <<"x", "m", "l", "n", "s">>
k_version == <<"v", "e", "r", "s", "i", "o", "n">>
k_width == <<"w", "i", "d", "t", "h">>
k_height == <<"h", "e", "i", "g", "h", "t">>
v_xmlns == <<"h", "t", "t", "p", ":", "/", "/", "w", "w", "w", ".", "w", "3", ".", "o", "r", "g", "/", "2", "0", "0", "0", "/", "s", "v", "g">>
v_version == <<"1", ".", "1">>
k_cx == <<"c", "x">>
k_cy == <<"c", "y">>
k_r == <<"r">>
k_d == <<"d">>
k_x == <<"x">>
k_y == <<"y">>
k_x1 == <<"x", "1">>
k_y1 == <<"y", "1">>
k_x2 == <<"x", "2">>
k_y2 == <<"y", "2">>
k_w == <<"w">>
k_h == <<"h">>
k_tag == <<"t", "a", "g">>
k_self == <<"s", "e", "l", "f">>
k_text == <<"t", "e", "x", "t">>
k_alpha == <<"a", "l", "p", "h", "a">>
k_theta == <<"t", "h", "e", "t", "a">>
k_stroke_width == <<"s", "t", "r", "o", "k", "e", "_", "w", "i", "d", "t", "h">>
k_view_box == <<"v", "i", "e", "w", "_", "b", "o", "x">>

(***************************************************************************)
(* The state of the program.                                               *)
(***************************************************************************)
VARIABLES
    build,      \* the ElementTree implementation the interpreter provides
    tb,         \* the TreeBuilder part of the SVGBuilder instance
    handles,    \* the _SVGGroup objects returned so far
    op,         \* the most recent call on the builder and its outcome
    doc,        \* what write serialized last (NoDoc before)
    starts,     \* history: start events the builder took, per tag
    ends,       \* history: end events the builder took, per tag
    exits,      \* history: per handle, __exit__ calls that returned normally
    lifo,       \* history: every __exit__ so far closed the newest open handle
    writes,     \* history: calls of write that returned normally
    attempted,  \* history: write has been called
    ctor,       \* history: the arguments the builder was constructed with
    fa_in,      \* SpecFixAttrs: the keyword arguments given to _fix_attrs
    fa_out,     \* SpecFixAttrs: the dict _fix_attrs returned
    fa_done,    \* SpecFixAttrs: _fix_attrs has returned
    cs_args,    \* SpecSector: the arguments given to circle_sector
    cs_done     \* SpecSector: circle_sector has returned

vars == <<build, tb, handles, op, doc, starts, ends, exits, lifo, writes,
          attempted, ctor, fa_in, fa_out, fa_done, cs_args, cs_done>>

(***************************************************************************)
(* xml.etree.ElementTree.TreeBuilder, the base class of SVGBuilder.        *)
(*                                                                         *)
(* Three implementations exist and the program runs on whichever the       *)
(* interpreter provides:                                                   *)
(*   "pure"         the Python class: end pops the stack and then asserts  *)
(*                  that the popped tag is the one given; start requires   *)
(*                  attrs; close asserts that the stack is empty;          *)
(*   "accel"        the C accelerator of current CPython: end ignores its  *)
(*                  tag, start requires attrs and rejects a second         *)
(*                  top-level element, close checks nothing;               *)
(*   "accel_legacy" the C accelerator of older CPython, which differs from *)
(*                  "accel" in accepting start(tag) without attrs.         *)
(***************************************************************************)
Builds == {"pure", "accel", "accel_legacy"}

None == 0
NoErr == ""

Tags == {"svg", "g", "defs", "text", "circle", "line", "rect", "path"}

Element(tag, attrib) ==
    [tag |-> tag, attrib |-> attrib, text |-> <<>>, tail |-> <<>>,
     children |-> <<>>]

\* TreeBuilder.__init__
TreeBuilder_init ==
    [elem |-> <<>>, nodes |-> <<>>, root |-> None, last |-> None,
     tail |-> FALSE, data |-> <<>>]

\* A call in progress: the builder, the exception raised so far (NoErr if
\* none), the events issued (kind, tag, and whether the builder took the
\* event or raised before touching its stack), and the elements taken off
\* the stack.
Running(t) == [tb |-> t, err |-> NoErr, evs |-> <<>>, popped |-> <<>>]

Raise(m, e) == [m EXCEPT !.err = e]

Top(stack) == stack[Len(stack)]
Pop(stack) == SubSeq(stack, 1, Len(stack) - 1)

RECURSIVE Join(_)
Join(chunks) ==
    IF chunks = <<>> THEN <<>> ELSE Head(chunks) \o Join(Tail(chunks))

\* TreeBuilder._flush: pending data becomes the text of the last started
\* element, or the tail of the last ended one.
flush(t) ==
    IF t.data = <<>> THEN t
    ELSE IF t.last = None THEN [t EXCEPT !.data = <<>>]
    ELSE IF t.tail
         THEN [t EXCEPT !.nodes[t.last].tail = Join(t.data), !.data = <<>>]
         ELSE [t EXCEPT !.nodes[t.last].text = Join(t.data), !.data = <<>>]

\* TreeBuilder.start(tag, attrs)
start(m, tag, attrs) ==
    IF m.err # NoErr THEN m
    ELSE
      LET f == flush(m.tb)
          n == Len(f.nodes) + 1
          added == Append(f.nodes, Element(tag, attrs))
          ev == Append(m.evs, <<"start", tag, TRUE>>)
      IN  IF f.elem # <<>>
          THEN [m EXCEPT !.evs = ev,
                   !.tb = [f EXCEPT
                       !.nodes = [added EXCEPT
                           ![Top(f.elem)].children = Append(@, n)],
                       !.elem = Append(@, n), !.last = n, !.tail = FALSE]]
          ELSE IF f.root = None
          THEN [m EXCEPT !.evs = ev,
                   !.tb = [f EXCEPT !.nodes = added, !.root = n,
                       !.elem = Append(@, n), !.last = n, !.tail = FALSE]]
          ELSE IF build = "pure"
          THEN [m EXCEPT !.evs = ev,
                   !.tb = [f EXCEPT !.nodes = added,
                       !.elem = Append(@, n), !.last = n, !.tail = FALSE]]
          ELSE [m EXCEPT !.evs = Append(@, <<"start", tag, FALSE>>),
                         !.tb = f, !.err = "ParseError"]

\* TreeBuilder.start(tag), the call without attrs that defs makes.
start_noattrs(m, tag) ==
    IF m.err # NoErr THEN m
    ELSE IF build = "accel_legacy" THEN start(m, tag, EmptyDict)
    ELSE Raise(m, "TypeError")

\* TreeBuilder.data(text)
data(m, text) ==
    IF m.err # NoErr THEN m
    ELSE [m EXCEPT !.tb.data = Append(@, text),
                   !.evs = Append(@, <<"data", "", TRUE>>)]

\* TreeBuilder.end(tag)
end(m, tag) ==
    IF m.err # NoErr THEN m
    ELSE
      LET f == flush(m.tb)
          ev == Append(m.evs, <<"end", tag, TRUE>>)
      IN  IF f.elem = <<>>
          THEN [m EXCEPT !.evs = Append(@, <<"end", tag, FALSE>>),
                         !.tb = f, !.err = "IndexError"]
          ELSE
            LET e == Top(f.elem)
                popped == [f EXCEPT !.last = e, !.elem = Pop(f.elem)]
            IN  IF build = "pure" /\ f.nodes[e].tag # tag
                THEN [m EXCEPT !.evs = ev, !.popped = Append(@, e),
                               !.tb = popped, !.err = "AssertionError"]
                ELSE [m EXCEPT !.evs = ev, !.popped = Append(@, e),
                               !.tb = [popped EXCEPT !.tail = TRUE]]

\* TreeBuilder.close(): the error it raises, NoErr if it returns the root.
close(m) ==
    IF m.err # NoErr THEN m
    ELSE IF build = "pure" /\ m.tb.elem # <<>> THEN Raise(m, "AssertionError")
    ELSE m

(***************************************************************************)
(* Python's binding of keyword arguments.                                  *)
(***************************************************************************)
\* The merge a dict update would do: nothing is ever a duplicate.
DuplicateKeyword_never(explicit, kwargs) == FALSE

\* f(k=v, ..., **kwargs) raises TypeError when kwargs repeats an explicit
\* keyword.
DuplicateKeyword(explicit, kwargs) ==
    KwKeys(explicit) \cap KwKeys(kwargs) # {}

\* f(a, b, **kwargs) raises TypeError when kwargs names a parameter that
\* was given positionally.
RebindsParam(params, kwargs) == params \cap KwKeys(kwargs) # {}

(***************************************************************************)
(* SVGBuilder.                                                             *)
(***************************************************************************)
fmt_f(n) == IntStr(n) \o <<".", "0", "0", "0", "0", "0", "0">>

\* An angle in radians: pi2 * (math.pi / 2) + milli / 1000, both integers.
\* Angle(2, 0) is math.pi itself, Angle(0, -3500) is -3.5.
Angle(k, n) == [pi2 |-> k, milli |-> n]

AngleSum(a, b) == Angle(a.pi2 + b.pi2, a.milli + b.milli)

\* '%f' of c + r * fn(angle).  The model has no trigonometry: the term is
\* kept unevaluated.
fmt_trig(c, r, fn, angle) ==
    <<"{">> \o IntStr(c) \o <<"+">> \o IntStr(r) \o <<"*", fn, "(">>
    \o IntStr(angle.pi2) \o <<"*", "p", "i", "/", "2", "+">>
    \o IntStr(angle.milli) \o <<"e", "-", "3", ")", "}">>

\* math.pi / 2 in millionths, rounded down: 1.570796...
HalfPiMicro == 1570796

\* The whole part of q * (math.pi / 2) * 1000, for 0 < q < 1000.
FloorHalfPis(q) == (q * HalfPiMicro) \div 1000

\* k * (math.pi / 2) + n / 1000 > 0.  No multiple of pi is a whole number
\* of thousandths, so for k # 0 the comparison is decided by the whole part.
Positive(k, n) ==
    IF k = 0 THEN n > 0
    ELSE IF k > 0 THEN n + FloorHalfPis(k) >= 0
    ELSE n > FloorHalfPis(-k)

\* abs(theta) > math.pi, with >= in place of >.
large_arc_ge(theta) ==
    IF Positive(theta.pi2 - 2, theta.milli)
       \/ Positive(-theta.pi2 - 2, -theta.milli)
       \/ (theta.milli = 0 /\ Abs(theta.pi2) = 2)
    THEN 1 ELSE 0

\* 1 if abs(theta) > math.pi else 0
large_arc(theta) ==
    IF Positive(theta.pi2 - 2, theta.milli)
       \/ Positive(-theta.pi2 - 2, -theta.milli)
    THEN 1 ELSE 0

\* 1 if theta > 0 else 0
sweep(theta) == IF Positive(theta.pi2, theta.milli) THEN 1 ELSE 0

Comment(text) ==
    [tag |-> "Comment", attrib |-> EmptyDict, text |-> text, tail |-> <<>>,
     children |-> <<>>]

\* SVGBuilder.__init__(width, height, **kwargs); now is datetime.today().
SVGBuilder_init_as(width, height, kwargs, now, wsrc) ==
    LET m0 == Running(TreeBuilder_init)
        explicit == <<<<k_xmlns, PyStr(v_xmlns)>>,
                      <<k_version, PyStr(v_version)>>>>
    IN  IF RebindsParam({k_self, k_width, k_height}, kwargs)
           \/ DuplicateKeyword(explicit, kwargs)
        THEN Raise(m0, "TypeError")
        ELSE
          LET a0 == fix_attrs(explicit \o kwargs)
              a1 == IF width # PyNone
                    THEN SetItem(a0, k_width, str(wsrc)) ELSE a0
              a2 == IF height # PyNone
                    THEN SetItem(a1, k_height, str(height)) ELSE a1
              m1 == start(m0, "svg", a2)
              svg == m1.tb.last
              c == Len(m1.tb.nodes) + 1
          IN  [m1 EXCEPT !.tb.nodes =
                  Append([@ EXCEPT ![svg].children = Append(@, c)],
                         Comment(<<"vbl-stats svg generated at ", now>>))]

\* A slip that stores the height under width.
SVGBuilder_init_slip(width, height, kwargs, now) ==
    SVGBuilder_init_as(width, height, kwargs, now, height)

SVGBuilder_init(width, height, kwargs, now) ==
    SVGBuilder_init_as(width, height, kwargs, now, width)

\* A slip that leaves the element open.
item_forgets(m, tag, kwargs) == start(m, tag, fix_attrs(kwargs))

\* SVGBuilder.item(tag, **kwargs)
item(m, tag, kwargs) == end(start(m, tag, fix_attrs(kwargs)), tag)

\* self.item(tag, k=v, ..., **kwargs) as the shape methods call it.
call_item(m, tag, explicit, kwargs) ==
    IF m.err # NoErr THEN m
    ELSE IF DuplicateKeyword(explicit, kwargs)
            \/ RebindsParam({k_self, k_tag}, kwargs)
    THEN Raise(m, "TypeError")
    ELSE item(m, tag, explicit \o kwargs)

\* SVGBuilder.circle(cx, cy, r, **kwargs)
circle_explicit(cx, cy, r) == <<<<k_cx, cx>>, <<k_cy, cy>>, <<k_r, r>>>>
circle_call(m, cx, cy, r, kwargs) ==
    IF RebindsParam({k_self, k_cx, k_cy, k_r}, kwargs)
    THEN Raise(m, "TypeError")
    ELSE call_item(m, "circle", circle_explicit(cx, cy, r), kwargs)

\* SVGBuilder.circle_sector(cx, cy, r, alpha, theta, **kwargs); cx, cy, r
\* are integers, alpha and theta angles.
sector_d(cx, cy, r, alpha, theta) ==
    <<"M">> \o fmt_f(cx) \o <<",">> \o fmt_f(cy) \o <<" ", "L">>
    \o fmt_trig(cx, r, "cos", alpha) \o <<",">>
    \o fmt_trig(cy, r, "sin", alpha) \o <<" ", "A">>
    \o fmt_f(r) \o <<",">> \o fmt_f(r) \o <<" ", "0", " ">>
    \o IntStr(large_arc(theta)) \o <<",">> \o IntStr(sweep(theta)) \o <<" ">>
    \o fmt_trig(cx, r, "cos", AngleSum(alpha, theta)) \o <<",">>
    \o fmt_trig(cy, r, "sin", AngleSum(alpha, theta)) \o <<" ", "Z">>

sector_explicit(cx, cy, r, alpha, theta) ==
    <<<<k_d, PyStr(sector_d(cx, cy, r, alpha, theta))>>>>
circle_sector_call(m, cx, cy, r, alpha, theta, kwargs) ==
    IF RebindsParam({k_self, k_cx, k_cy, k_r, k_alpha, k_theta}, kwargs)
    THEN Raise(m, "TypeError")
    ELSE call_item(m, "path", sector_explicit(cx, cy, r, alpha, theta),
                   kwargs)

\* SVGBuilder.defs()
defs_call(m) == start_noattrs(m, "defs")

\* A slip that closes the group element before returning the handle.
g_call_closes(m, kwargs) ==
    IF RebindsParam({k_self}, kwargs) THEN Raise(m, "TypeError")
    ELSE item(m, "g", kwargs)

\* SVGBuilder.g(**kwargs)
g_call(m, kwargs) ==
    IF RebindsParam({k_self}, kwargs) THEN Raise(m, "TypeError")
    ELSE start(m, "g", fix_attrs(kwargs))

\* SVGBuilder.line(x1, y1, x2, y2, **kwargs)
line_explicit(x1, y1, x2, y2) ==
    <<<<k_x1, x1>>, <<k_y1, y1>>, <<k_x2, x2>>, <<k_y2, y2>>>>
line_call(m, x1, y1, x2, y2, kwargs) ==
    IF RebindsParam({k_self, k_x1, k_y1, k_x2, k_y2}, kwargs)
    THEN Raise(m, "TypeError")
    ELSE call_item(m, "line", line_explicit(x1, y1, x2, y2), kwargs)

\* SVGBuilder.rect(x, y, w, h, **kwargs)
rect_explicit(x, y, w, h) ==
    <<<<k_x, x>>, <<k_y, y>>, <<k_width, w>>, <<k_height, h>>>>
rect_call(m, x, y, w, h, kwargs) ==
    IF RebindsParam({k_self, k_x, k_y, k_w, k_h}, kwargs)
    THEN Raise(m, "TypeError")
    ELSE call_item(m, "rect", rect_explicit(x, y, w, h), kwargs)

\* _fix_attrs(x=x, y=y, **kwargs) as text and text_group call it.
xy_explicit(x, y) == <<<<k_x, x>>, <<k_y, y>>>>
xy_attrs(m, x, y, kwargs) ==
    IF DuplicateKeyword(xy_explicit(x, y), kwargs)
    THEN [m |-> Raise(m, "TypeError"), attrs |-> EmptyDict]
    ELSE [m |-> m, attrs |-> fix_attrs(xy_explicit(x, y) \o kwargs)]

\* A slip that hands over the text before opening the element.
text_call_data_first(m, text, x, y, kwargs) ==
    IF RebindsParam({k_self, k_text, k_x, k_y}, kwargs)
    THEN Raise(m, "TypeError")
    ELSE LET a == xy_attrs(m, x, y, kwargs)
         IN  end(start(data(a.m, text), "text", a.attrs), "text")

\* SVGBuilder.text(text, x, y, **kwargs)
text_call(m, text, x, y, kwargs) ==
    IF RebindsParam({k_self, k_text, k_x, k_y}, kwargs)
    THEN Raise(m, "TypeError")
    ELSE LET a == xy_attrs(m, x, y, kwargs)
         IN  end(data(start(a.m, "text", a.attrs), text), "text")

\* SVGBuilder.text_group(x, y, **kwargs)
text_group_call(m, x, y, kwargs) ==
    IF RebindsParam({k_self, k_x, k_y}, kwargs)
    THEN Raise(m, "TypeError")
    ELSE LET a == xy_attrs(m, x, y, kwargs)
         IN  start(a.m, "text", a.attrs)

\* The exception types a with-block is left with: "None" when the body
\* finished normally.
NoExc == "None"
ExcTypes == {NoExc, "Exception"}

\* _SVGGroup.__enter__: return self
SVGGroup_enter(m, handle) == m

\* An __exit__ that forgets to end its element.
SVGGroup_exit_forgets(m, handle, type) == m

\* An __exit__ that leaves the element open when the body raised.
SVGGroup_exit_unless_raised(m, handle, type) ==
    IF type # NoExc THEN m ELSE end(m, handle.tag)

\* _SVGGroup.__exit__(type, value, traceback): self.builder.end(self.tag)
SVGGroup_exit(m, handle, type) == end(m, handle.tag)

\* A write that forgets to end the root.
write_call_forgets(m) == close(m)

\* SVGBuilder.write: self.end('svg'), then self.close().
write_call(m) == close(end(m, "svg"))

(***************************************************************************)
(* The calls a program makes on one builder.                               *)
(***************************************************************************)
NoDoc == [root |-> None, nodes |-> <<>>]

Count(evs, kind, tag) ==
    Cardinality({i \in DOMAIN evs : evs[i] = <<kind, tag, TRUE>>})

\* The record of a finished call: m is its outcome, h the handle it was
\* made on (0 if none), type the exception type given to __exit__, tag the
\* tag it passed to end by itself.
Done(name, h, type, tag, explicit, kwargs, m) ==
    [name |-> name, h |-> h, exc |-> type, tag |-> tag,
     explicit |-> explicit,
     kwargs |-> kwargs, err |-> m.err, evs |-> m.evs, popped |-> m.popped,
     pre |-> tb.elem, nodes_before |-> Len(tb.nodes),
     prior |-> IF h = 0 THEN 0 ELSE exits[h],
     writes_before |-> writes, attempted_before |-> attempted]

Commit(name, h, type, tag, explicit, kwargs, m) ==
    /\ tb' = m.tb
    /\ op' = Done(name, h, type, tag, explicit, kwargs, m)
    /\ starts' = [t \in Tags |-> starts[t] + Count(m.evs, "start", t)]
    /\ ends' = [t \in Tags |-> ends[t] + Count(m.evs, "end", t)]
    /\ UNCHANGED <<build, ctor, fa_in, fa_out, fa_done, cs_args>>

\* A group method returns its _SVGGroup only if start did not raise.
Returned(m, tag) ==
    IF m.err = NoErr
    THEN /\ handles' = Append(handles, [tag |-> tag, node |-> m.tb.last])
         /\ exits' = Append(exits, 0)
    ELSE UNCHANGED <<handles, exits>>

Room == Len(tb.nodes) < MaxNodes

\* Inputs.
sw == <<<<k_stroke_width, PyFloat(25)>>>>
CircleKw == {sw, <<<<k_r, PyInt(9)>>>>}
SectorKw == {<<>>, <<<<k_d, PyStr(<<"M", "0">>)>>>>}
GKw == {<<>>}
LineKw == {<<>>}
RectKw == {<<>>, <<<<k_width, PyInt(9)>>>>}
TextKw == {<<>>, <<<<k_y, PyInt(9)>>>>}
TextGroupKw == {<<>>}
Thetas == {Angle(1, 0)}
v_hi == <<"h", "i">>

circle ==
    \E kwargs \in CircleKw :
        LET m == circle_call(Running(tb), PyInt(10), PyInt(20), PyInt(5),
                             kwargs)
        IN  /\ Room
            /\ Commit("circle", 0, NoExc, "",
                      circle_explicit(PyInt(10), PyInt(20), PyInt(5)),
                      kwargs, m)
            /\ UNCHANGED <<handles, exits, lifo, writes, attempted, doc, cs_done>>

circle_sector ==
    \E kwargs \in SectorKw, theta \in Thetas :
        LET m == circle_sector_call(Running(tb), 0, 0, 1, Angle(0, 0), theta,
                                    kwargs)
        IN  /\ Room
            /\ Commit("circle_sector", 0, NoExc, "",
                      sector_explicit(0, 0, 1, Angle(0, 0), theta), kwargs,
                      m)
            /\ UNCHANGED <<handles, exits, lifo, writes, attempted, doc, cs_done>>

defs ==
    LET m == defs_call(Running(tb))
    IN  /\ Room
        /\ Commit("defs", 0, NoExc, "", <<>>, <<>>, m)
        /\ Returned(m, "defs")
        /\ UNCHANGED <<lifo, writes, attempted, doc, cs_done>>

g ==
    \E kwargs \in GKw :
        LET m == g_call(Running(tb), kwargs)
        IN  /\ Room
            /\ Commit("g", 0, NoExc, "", <<>>, kwargs, m)
            /\ Returned(m, "g")
            /\ UNCHANGED <<lifo, writes, attempted, doc, cs_done>>

line ==
    \E kwargs \in LineKw :
        LET m == line_call(Running(tb), PyInt(0), PyInt(0), PyInt(10),
                           PyInt(-20), kwargs)
        IN  /\ Room
            /\ Commit("line", 0, NoExc, "",
                      line_explicit(PyInt(0), PyInt(0), PyInt(10),
                                    PyInt(-20)),
                      kwargs, m)
            /\ UNCHANGED <<handles, exits, lifo, writes, attempted, doc, cs_done>>

rect ==
    \E kwargs \in RectKw :
        LET m == rect_call(Running(tb), PyInt(1), PyInt(2), PyInt(30),
                           PyInt(40), kwargs)
        IN  /\ Room
            /\ Commit("rect", 0, NoExc, "",
                      rect_explicit(PyInt(1), PyInt(2), PyInt(30),
                                    PyInt(40)),
                      kwargs, m)
            /\ UNCHANGED <<handles, exits, lifo, writes, attempted, doc, cs_done>>

text ==
    \E kwargs \in TextKw :
        LET m == text_call(Running(tb), v_hi, PyInt(1), PyInt(2), kwargs)
        IN  /\ Room
            /\ Commit("text", 0, NoExc, "", xy_explicit(PyInt(1), PyInt(2)),
                      kwargs, m)
            /\ UNCHANGED <<handles, exits, lifo, writes, attempted, doc, cs_done>>

text_group ==
    \E kwargs \in TextGroupKw :
        LET m == text_group_call(Running(tb), PyInt(1), PyInt(2), kwargs)
        IN  /\ Room
            /\ Commit("text_group", 0, NoExc, "", xy_explicit(PyInt(1), PyInt(2)),
                      kwargs, m)
            /\ Returned(m, "text")
            /\ UNCHANGED <<lifo, writes, attempted, doc, cs_done>>

\* The handles not yet closed, and the one opened last among them.
OpenHandles == {i \in DOMAIN handles : exits[i] = 0}
IsNewestOpen(h) == h \in OpenHandles /\ \A i \in OpenHandles : i <= h

\* Entering the with-block of a handle: the with statement calls __enter__
\* on the handle the group method has just returned.
enter ==
    \E h \in DOMAIN handles :
        LET m == SVGGroup_enter(Running(tb), handles[h])
        IN  /\ op.name \in {"g", "defs", "text_group"}
            /\ op.err = NoErr
            /\ h = Len(handles)
            /\ Commit("enter", h, NoExc, "", <<>>, <<>>, m)
            /\ UNCHANGED <<handles, exits, lifo, writes, attempted, doc,
                           cs_done>>

\* Leaving the with-block of a handle, normally or with an exception in
\* flight, or calling its __exit__ directly.  An exception in flight unwinds
\* the with-blocks innermost first, so it reaches the newest open handle;
\* a direct call can be made on any handle at any time.
exit ==
    \E h \in DOMAIN handles, type \in ExcTypes :
        LET m == SVGGroup_exit(Running(tb), handles[h], type)
        IN  /\ type # NoExc => IsNewestOpen(h)
            /\ Commit("exit", h, type, handles[h].tag, <<>>, <<>>, m)
            /\ exits' = IF m.err = NoErr
                        THEN [exits EXCEPT ![h] = @ + 1] ELSE exits
            /\ lifo' = (lifo /\ IsNewestOpen(h))
            /\ UNCHANGED <<handles, writes, attempted, doc, cs_done>>

\* tree.write is the serializer: doc is the tree it was handed.
write ==
    LET m == write_call(Running(tb))
    IN  /\ Commit("write", 0, NoExc, "svg", <<>>, <<>>, m)
        /\ writes' = IF m.err = NoErr THEN writes + 1 ELSE writes
        /\ attempted' = TRUE
        /\ doc' = IF m.err = NoErr
                  THEN [root |-> m.tb.root, nodes |-> m.tb.nodes] ELSE doc
        /\ UNCHANGED <<handles, exits, lifo, cs_done>>

NoSector ==
    [cx |-> 0, cy |-> 0, r |-> 0, alpha |-> Angle(0, 0),
     theta |-> Angle(0, 0)]

\* Construction.
Clock == {"2026-11-04T06:00:00"}
\* Spec constructs with a width, a height and one extra; SpecFixAttrs and
\* SpecSector construct without any of them.
CtorArgs ==
    {[width |-> PyInt(100), height |-> PyInt(50),
      kwargs |-> <<<<k_view_box, PyStr(<<"0", " ", "9">>)>>>>]}

Constructed(b, a, now) ==
    LET m == SVGBuilder_init(a.width, a.height, a.kwargs, now)
    IN  /\ m.err = NoErr
        /\ build = b
        /\ tb = m.tb
        /\ ctor = a
        /\ handles = <<>>
        /\ exits = <<>>
        /\ op = [name |-> "__init__", h |-> 0, exc |-> NoExc, tag |-> "",
                 explicit |-> <<>>, kwargs |-> a.kwargs, err |-> m.err,
                 evs |-> m.evs, popped |-> m.popped, pre |-> <<>>,
                 nodes_before |-> 0, prior |-> 0, writes_before |-> 0,
                 attempted_before |-> FALSE]
        /\ doc = NoDoc
        /\ starts = [t \in Tags |-> Count(m.evs, "start", t)]
        /\ ends = [t \in Tags |-> Count(m.evs, "end", t)]
        /\ lifo = TRUE
        /\ writes = 0
        /\ attempted = FALSE

Init ==
    /\ \E b \in Builds, a \in CtorArgs, now \in Clock : Constructed(b, a, now)
    /\ fa_in = <<>>
    /\ fa_out = EmptyDict
    /\ fa_done = FALSE
    /\ cs_args = NoSector
    /\ cs_done = FALSE

Next ==
    \/ circle
    \/ circle_sector
    \/ defs
    \/ g
    \/ line
    \/ rect
    \/ text
    \/ text_group
    \/ enter
    \/ exit
    \/ write

Spec == Init /\ [][Next]_vars

(***************************************************************************)
(* The normalizer on its own: _fix_attrs applied to one dict of keyword    *)
(* arguments whose keys are identifiers.                                   *)
(***************************************************************************)
FixAlphabet == {"a", "_"}
FixKeys == UNION {[1..n -> FixAlphabet] : n \in 1..MaxKeyLen}
FixValues == {PyInt(2), PyInt(-13), PyFloat(35), PyNone,
              PyStr(<<"a", "_", "b">>)}
FixItems == FixKeys \X FixValues
FixInputs ==
    {<<>>} \cup {<<i>> : i \in FixItems}
    \cup {<<p[1], p[2]>> :
              p \in {q \in FixItems \X FixItems : q[1][1] # q[2][1]}}

InitFixAttrs ==
    /\ Constructed("accel", [width |-> PyNone, height |-> PyNone,
                             kwargs |-> <<>>], "2026-11-04T06:00:00")
    /\ fa_in \in FixInputs
    /\ fa_out = EmptyDict
    /\ fa_done = FALSE
    /\ cs_args = NoSector
    /\ cs_done = FALSE

call_fix_attrs ==
    /\ ~fa_done
    /\ fa_out' = fix_attrs(fa_in)
    /\ fa_done' = TRUE
    /\ UNCHANGED <<build, tb, handles, op, doc, starts, ends, exits, lifo,
                   writes, attempted, ctor, fa_in, cs_args, cs_done>>

NextFixAttrs == call_fix_attrs

SpecFixAttrs == InitFixAttrs /\ [][NextFixAttrs]_vars

(***************************************************************************)
(* circle_sector on its own: one call on a fresh builder, for sweeps on    *)
(* both sides of 0, of math.pi and of -math.pi.                            *)
(***************************************************************************)
SectorCoords == (-MaxCoord)..MaxCoord
SectorRadii == 1..(MaxCoord + 1)
SectorAlphas == {Angle(0, 0), Angle(1, 0), Angle(0, -500)}
SectorThetas ==
    {Angle(1, 0), Angle(0, -3500), Angle(2, 0), Angle(-2, 0), Angle(0, 0),
     Angle(0, 3141), Angle(0, 3142), Angle(0, -3141), Angle(0, -3142),
     Angle(3, 0), Angle(-3, 0), Angle(4, 0), Angle(2, 1), Angle(2, -1),
     Angle(0, 7000), Angle(-1, 0)}

InitSector ==
    /\ \E b \in Builds :
          Constructed(b, [width |-> PyNone, height |-> PyNone,
                          kwargs |-> <<>>], "2026-11-04T06:00:00")
    /\ fa_in = <<>>
    /\ fa_out = EmptyDict
    /\ fa_done = FALSE
    /\ cs_args \in [cx : SectorCoords, cy : SectorCoords, r : SectorRadii,
                     alpha : SectorAlphas, theta : SectorThetas]
    /\ cs_done = FALSE

call_circle_sector ==
    LET a == cs_args
        m == circle_sector_call(Running(tb), a.cx, a.cy, a.r, a.alpha,
                                a.theta, <<>>)
    IN  /\ ~cs_done
        /\ Commit("circle_sector", 0, NoExc, "",
                  sector_explicit(a.cx, a.cy, a.r, a.alpha, a.theta), <<>>, m)
        /\ cs_done' = TRUE
        /\ UNCHANGED <<handles, exits, lifo, writes, attempted, doc>>

NextSector == call_circle_sector

SpecSector == InitSector /\ [][NextSector]_vars

(***************************************************************************)
(* Properties.                                                             *)
(***************************************************************************)
AllClosed == \A h \in DOMAIN handles : exits[h] = 1

EndCall == op.name \in {"exit", "write"}

\* The tag given to end is not the tag of the innermost open element, or
\* no element is open.
Mismatched ==
    op.pre = <<>> \/ tb.nodes[Top(op.pre)].tag # op.tag

Parents(nodes, n) ==
    {p \in DOMAIN nodes :
        \E i \in DOMAIN nodes[p].children : nodes[p].children[i] = n}

FirstWrite == op.name = "write" /\ ~op.attempted_before

\* C1: after shape and group calls whose handles were all closed in
\* reverse-of-open order, the first write succeeds, leaves the open-element
\* stack empty and serializes a tree with the single root svg: the root has
\* no parent and every other element has exactly one.
C1_WellFormed ==
    (FirstWrite /\ lifo /\ AllClosed) =>
        /\ op.err = NoErr
        /\ tb.elem = <<>>
        /\ doc.root # None
        /\ doc.nodes[doc.root].tag = "svg"
        /\ \A n \in DOMAIN doc.nodes :
              Cardinality(Parents(doc.nodes, n))
                  = (IF n = doc.root THEN 0 ELSE 1)

C1_Witness ==
    /\ FirstWrite /\ lifo /\ AllClosed
    /\ Len(handles) >= 1
    /\ Len(doc.nodes) > Len(handles) + 2

\* C2: an end whose tag is not the tag of the innermost open element, or
\* that finds no element open, raises the error that names the expected and
\* the actual tag.
C2_MismatchedEndFailsLoudly ==
    (EndCall /\ Mismatched) => op.err = "AssertionError"

\* C3: a write called while an element other than the root is open raises
\* an error and serializes nothing.
C3_WriteWithOpenGroupsFails ==
    (op.name = "write" /\ Len(op.pre) > 1) =>
        /\ op.err # NoErr
        /\ writes = op.writes_before

\* C4: closing a handle that was already closed raises an error.
C4_DoubleCloseFails ==
    (op.name = "exit" /\ op.prior >= 1) => op.err # NoErr

\* C5: a close that succeeds removes from the stack the element that the
\* call returning the handle opened.
C5_ClosesOwnElement ==
    (op.name = "exit" /\ op.err = NoErr) =>
        op.popped = <<handles[op.h].node>>

\* C6: before any write, once every handle has been closed and all closes
\* came in reverse-of-open order, each tag has as many end events as start
\* events and only the root svg is open.
C6_ScopingBalance ==
    (lifo /\ AllClosed /\ ~attempted) =>
        /\ \A t \in Tags \ {"svg"} : starts[t] = ends[t]
        /\ tb.elem = <<tb.root>>
        /\ tb.nodes[tb.root].tag = "svg"

C6_Witness ==
    /\ lifo /\ AllClosed /\ ~attempted
    /\ Len(handles) >= 2
    /\ handles[1].node \in Parents(tb.nodes, handles[2].node)

\* C7: a mismatched end raises an error and leaves the open-element stack
\* as it was before the call.
C7_RejectedCloseHasNoEffect ==
    (EndCall /\ Mismatched) => (op.err # NoErr /\ tb.elem = op.pre)

ShapeOps == {"circle", "line", "rect", "text", "circle_sector"}

\* A caller-supplied extra has, after normalization, the name of a geometry
\* attribute the shape operation sets itself.
Collides ==
    /\ op.name \in ShapeOps
    /\ {replace(k) : k \in KwKeys(op.kwargs)} \cap KwKeys(op.explicit) # {}

Emitted == op.nodes_before + 1

\* C8 as stated: on such a collision the operation succeeds and the emitted
\* element carries the values of the explicit geometry parameters.
C8_GeometryWins ==
    Collides =>
        /\ op.err = NoErr
        /\ Len(tb.nodes) = Emitted
        /\ \A i \in DOMAIN op.explicit :
              /\ op.explicit[i][1] \in DOMAIN tb.nodes[Emitted].attrib
              /\ tb.nodes[Emitted].attrib[op.explicit[i][1]]
                    = str(op.explicit[i][2])

\* C8 amended: on such a collision the operation raises TypeError before
\* any event is issued: no element is emitted and the open-element stack is
\* unchanged.
C8_CollisionRejected ==
    Collides =>
        /\ op.err = "TypeError"
        /\ op.evs = <<>>
        /\ Len(tb.nodes) = op.nodes_before
        /\ tb.elem = op.pre

C8_Witness ==
    /\ Collides
    /\ op.name = "rect"
    /\ k_width \in KwKeys(op.kwargs)

IsComment(n) == tb.nodes[n].tag = "Comment"

\* C9: a builder constructed with width=100 and height=50 has on its root
\* svg width="100", height="50", the svg namespace as xmlns and
\* version="1.1"; and in every state the root's first child is a comment
\* and no other child of the root is one.
C9_RootAttributesAndComment ==
    LET svg == tb.nodes[tb.root]
    IN  /\ (ctor.width = PyInt(100) /\ ctor.height = PyInt(50)) =>
              /\ {k_width, k_height, k_xmlns, k_version}
                    \subseteq DOMAIN svg.attrib
              /\ svg.attrib[k_width] = <<"1", "0", "0">>
              /\ svg.attrib[k_height] = <<"5", "0">>
              /\ svg.attrib[k_xmlns] = v_xmlns
              /\ svg.attrib[k_version] = <<"1", ".", "1">>
        /\ svg.tag = "svg"
        /\ Len(svg.children) >= 1
        /\ \A i \in DOMAIN svg.children :
              IsComment(svg.children[i]) <=> i = 1

C9_Witness ==
    /\ ctor.width = PyInt(100) /\ ctor.height = PyInt(50)
    /\ Len(tb.nodes[tb.root].children) >= 3

\* The default string forms of the values SpecFixAttrs draws.
ExpectedStr(v) ==
    CASE v = PyInt(2) -> <<"2">>
      [] v = PyInt(-13) -> <<"-", "1", "3">>
      [] v = PyFloat(35) -> <<"3", ".", "5">>
      [] v = PyNone -> <<"N", "o", "n", "e">>
      [] v = PyStr(<<"a", "_", "b">>) -> <<"a", "_", "b">>

\* k2 is k with a hyphen wherever k has an underscore.
Hyphenated(k, k2) ==
    /\ Len(k2) = Len(k)
    /\ \A j \in 1..Len(k) :
          /\ k[j] = "_" => k2[j] = "-"
          /\ k[j] # "_" => k2[j] = k[j]

FixResultOK ==
    fa_done =>
        /\ Cardinality(DOMAIN fa_out) = Len(fa_in)
        /\ \A k2 \in DOMAIN fa_out : \A j \in 1..Len(k2) : k2[j] # "_"
        /\ \A i \in 1..Len(fa_in) :
              \E k2 \in DOMAIN fa_out :
                  /\ Hyphenated(fa_in[i][1], k2)
                  /\ fa_out[k2] = ExpectedStr(fa_in[i][2])

\* C10: the dict _fix_attrs returns has, for every keyword given, the key
\* with every underscore replaced by a hyphen, mapped to the default string
\* form of the keyword's value, and nothing else; the keywords given are
\* left as they were.
C10_Normalization == []FixResultOK /\ [][fa_in' = fa_in]_vars

C10_Witness ==
    /\ fa_done
    /\ Len(fa_in) = 2
    /\ \E i \in 1..2 :
          Cardinality({j \in 1..Len(fa_in[i][1]) : fa_in[i][1][j] = "_"}) >= 2

\* The two flags of the arc command in a path: after the A, the radii, a
\* space, the rotation 0 and a space come large-arc-flag "," sweep-flag.
ArcFlags(d) ==
    LET a == CHOOSE i \in DOMAIN d : d[i] = "A"
        sp == CHOOSE i \in DOMAIN d :
                  /\ i > a /\ d[i] = " "
                  /\ \A j \in (a + 1)..(i - 1) : d[j] # " "
    IN  <<d[sp + 3], d[sp + 5]>>

\* The flags each sweep drawn in SpecSector must give: large-arc-flag is 1
\* exactly for a sweep beyond pi in either direction, sweep-flag is 1
\* exactly for a positive sweep.
ExpectedFlags(theta) ==
    CASE theta = Angle(1, 0) -> <<"0", "1">>
      [] theta = Angle(0, -3500) -> <<"1", "0">>
      [] theta = Angle(2, 0) -> <<"0", "1">>
      [] theta = Angle(-2, 0) -> <<"0", "0">>
      [] theta = Angle(0, 0) -> <<"0", "0">>
      [] theta = Angle(0, 3141) -> <<"0", "1">>
      [] theta = Angle(0, 3142) -> <<"1", "1">>
      [] theta = Angle(0, -3141) -> <<"0", "0">>
      [] theta = Angle(0, -3142) -> <<"1", "0">>
      [] theta = Angle(3, 0) -> <<"1", "1">>
      [] theta = Angle(-3, 0) -> <<"1", "0">>
      [] theta = Angle(4, 0) -> <<"1", "1">>
      [] theta = Angle(2, 1) -> <<"1", "1">>
      [] theta = Angle(2, -1) -> <<"0", "1">>
      [] theta = Angle(0, 7000) -> <<"1", "1">>
      [] theta = Angle(-1, 0) -> <<"0", "0">>

\* C11: the arc command of the path circle_sector emits has large-arc-flag
\* 1 exactly when abs(theta) > pi (0 at abs(theta) = pi) and sweep-flag 1
\* exactly when theta > 0 (0 at theta = 0), whatever cx, cy, r and alpha:
\* pi/2 gives 0,1 and -3.5 gives 1,0.
C11_ArcFlags ==
    cs_done =>
        /\ op.err = NoErr
        /\ tb.nodes[Emitted].tag = "path"
        /\ ArcFlags(tb.nodes[Emitted].attrib[k_d])
              = ExpectedFlags(cs_args.theta)

C11_Witness ==
    /\ cs_done
    /\ cs_args.theta = Angle(2, 0)
    /\ cs_args.cx # 0
    /\ cs_args.alpha # Angle(0, 0)
    /\ ArcFlags(tb.nodes[Emitted].attrib[k_d]) = <<"0", "1">>

GroupOps == {"g", "defs", "text_group"}

\* C12: leaving the with-block of a handle, whether the body finished
\* normally or raised, issues exactly one end event, for the handle's tag;
\* creating a handle or entering its with-block issues no end event.
C12_ReleaseOnScopeExit ==
    /\ op.name = "exit" =>
          /\ Len(op.evs) = 1
          /\ op.evs[1][1] = "end"
          /\ op.evs[1][2] = handles[op.h].tag
    /\ op.name \in GroupOps \cup {"enter"} =>
          \A i \in DOMAIN op.evs : op.evs[i][1] # "end"

C12_Witness ==
    /\ op.name = "exit"
    /\ op.exc = "Exception"
    /\ op.err = NoErr
    /\ op.popped = <<handles[op.h].node>>

ShapeTag ==
    [n \in ShapeOps |-> IF n = "circle_sector" THEN "path" ELSE n]

ShapeEvents ==
    IF op.name = "text"
    THEN <<<<"start", "text", TRUE>>, <<"data", "", TRUE>>,
           <<"end", "text", TRUE>>>>
    ELSE <<<<"start", ShapeTag[op.name], TRUE>>,
           <<"end", ShapeTag[op.name], TRUE>>>>

\* C13: a shape call that returns issues exactly one start, then (after the
\* data event, for text) the end of the same tag and nothing else; the
\* open-element stack after the call is the stack before it; and, if an
\* element was open at the call, exactly one element is created and it is
\* appended as the last child of the innermost open one, and of no other.
C13_ShapeBalancedFramePreserving ==
    (op.name \in ShapeOps /\ op.err = NoErr) =>
        /\ op.evs = ShapeEvents
        /\ tb.elem = op.pre
        /\ Len(tb.nodes) = op.nodes_before + 1
        /\ tb.nodes[Emitted].tag = ShapeTag[op.name]
        /\ op.popped = <<Emitted>>
        /\ op.pre # <<>> =>
              /\ Parents(tb.nodes, Emitted) = {Top(op.pre)}
              /\ Top(tb.nodes[Top(op.pre)].children) = Emitted
              /\ Len(tb.nodes[Top(op.pre)].children) =
                     Cardinality({n \in 1..op.nodes_before :
                                     Top(op.pre) \in Parents(tb.nodes, n)})
                     + 1

\* A shape drawn inside an open group.
C13_Witness ==
    /\ op.name \in ShapeOps
    /\ op.err = NoErr
    /\ Len(op.pre) = 2
    /\ tb.nodes[Top(op.pre)].tag = "g"
    /\ tb.nodes[Top(op.pre)].children = <<Emitted>>

\* The children of element p that come before element n.
EarlierSiblings(p, n) ==
    {tb.nodes[p].children[i] : i \in {j \in DOMAIN tb.nodes[p].children :
        \E k \in DOMAIN tb.nodes[p].children :
            j < k /\ tb.nodes[p].children[k] = n}}

\* C14: a text call that returns issues start('text'), one data event and
\* end('text'), in that order and nothing else; the given text is the body
\* of the element it created, which has no tail; the elements open at the
\* call get no body from it and the earlier children of the innermost one
\* get no tail.
C14_TextBodyOrdering ==
    (op.name = "text" /\ op.err = NoErr) =>
        /\ op.evs = <<<<"start", "text", TRUE>>, <<"data", "", TRUE>>,
                      <<"end", "text", TRUE>>>>
        /\ tb.nodes[Emitted].tag = "text"
        /\ tb.nodes[Emitted].text = v_hi
        /\ tb.nodes[Emitted].tail = <<>>
        /\ tb.data = <<>>
        /\ \A i \in DOMAIN op.pre : tb.nodes[op.pre[i]].text = <<>>
        /\ op.pre # <<>> =>
              \A n \in EarlierSiblings(Top(op.pre), Emitted) :
                  tb.nodes[n].tail = <<>>

\* A text drawn in the root after an earlier sibling that was closed.
C14_Witness ==
    /\ op.name = "text"
    /\ op.err = NoErr
    /\ Len(op.pre) = 1
    /\ \E n \in EarlierSiblings(Top(op.pre), Emitted) :
           tb.nodes[n].tag \in {"g", "circle"}
    /\ tb.nodes[Emitted].text = v_hi

\* The last call emitted an element, and the handles that existed when it
\* was made (shape and group calls close no handle).
Emits == op.name \in ShapeOps \cup GroupOps /\ op.err = NoErr

HandlesBefore ==
    IF op.name \in GroupOps THEN 1..(Len(handles) - 1) ELSE DOMAIN handles

OpenBefore == {h \in HandlesBefore : exits[h] = 0}

ChildOf(n, p) == p \in Parents(tb.nodes, n)

\* C15: an element emitted while some handle is open becomes the last child
\* of the element of the handle opened last among the open ones; an element
\* is never emitted into the element of a handle that has been closed.
C15_NestingFollowsHandles ==
    Emits =>
        /\ \A h \in OpenBefore :
              (\A i \in OpenBefore : i <= h) =>
                  /\ ChildOf(Emitted, handles[h].node)
                  /\ Top(tb.nodes[handles[h].node].children) = Emitted
        /\ \A h \in HandlesBefore :
              exits[h] >= 1 => ~ChildOf(Emitted, handles[h].node)

\* C16: before any write, as long as every close was made on the handle
\* opened last among the open ones, the open-element stack is non-empty,
\* its bottom is the root svg, its depth is 1 plus the number of handles
\* opened and not yet closed, and the last call did not take the root off
\* the stack.
C16_StackDepth ==
    (lifo /\ ~attempted) =>
        /\ tb.elem # <<>>
        /\ tb.elem[1] = tb.root
        /\ tb.nodes[tb.root].tag = "svg"
        /\ Len(tb.elem) = 1 + Cardinality(OpenHandles)
        /\ \A i \in DOMAIN op.popped : op.popped[i] # tb.root

\* One handle closed and another still open.
C16_Witness ==
    /\ lifo
    /\ ~attempted
    /\ \E h \in DOMAIN handles : exits[h] = 1
    /\ OpenHandles # {}
    /\ Len(tb.elem) = 2

\* C17: a write that succeeds leaves the open-element stack empty, and
\* after a successful write every further write and every further close of
\* a handle raises an error and no further document is serialized.
C17_ConsumedByWrite ==
    /\ (op.name = "write" /\ op.err = NoErr) => tb.elem = <<>>
    /\ (op.name \in {"write", "exit"} /\ op.writes_before >= 1) =>
          /\ op.err # NoErr
          /\ writes = op.writes_before

====
